---- MODULE Spec2Model ----
(***************************************************************************)
(* A model of _Analyzer._ToCsv.normalize (src/analyzer.py): the conversion *)
(* of the spreadsheet workbooks of a source directory into one csv file    *)
(* per worksheet in a destination directory.                               *)
(*                                                                         *)
(* Text (file names, worksheet titles, cell text) is a sequence of         *)
(* one-character strings, so that the regular expression, the character    *)
(* substitution, the stem of a path and the cleansing of a cell are        *)
(* computed character by character as the code computes them.              *)
(*                                                                         *)
(* A cell value is a record [t, v]: t is the Python type of the value      *)
(* ("none", "int", "bool", "str") and v its text.  An output file is the   *)
(* list of rows handed to csv.writer.writerows.                            *)
(***************************************************************************)
EXTENDS Integers, Sequences, FiniteSets, TLC

VARIABLES
    srcKind,                 \* dir_source on disk: "absent", "file" or "dir"
    srcFiles,                \* the children of dir_source (indices of Pool)
    dest0,                   \* dir_destination at the first call: [exists, files]
    overwrites_destination,  \* the flag of the call
    destExists,              \* dir_destination exists
    destFiles,               \* its files: file name -> rows
    pc,                      \* position in normalize
    error,                   \* the exception that ended the call: [ex, at]
    run,                     \* number of the call in progress
    todo,                    \* children iterdir has not produced yet
    _worksheets,             \* the dict of line 130, in insertion order
    next_ws,                 \* index in _worksheets.items() of the write loop
    loads,                   \* history: [child, target] per workbook loaded
    written,                 \* history: files opened for writing in this call
    after1,                  \* dir_destination after the first call: [done, exists, files]
    input,                   \* argument of the function applied (SpecSheet, SpecCell)
    output                   \* its result

mainVars == <<srcKind, srcFiles, dest0, overwrites_destination, destExists,
              destFiles, pc, error, run, todo, _worksheets, next_ws, loads,
              written, after1>>

vars == <<srcKind, srcFiles, dest0, overwrites_destination, destExists,
          destFiles, pc, error, run, todo, _worksheets, next_ws, loads,
          written, after1, input, output>>

----------------------------------------------------------------------------
(* Bounds *)

\* most children of dir_source
MaxFiles == 3
\* most calls of normalize in a row
MaxRuns == 2
\* most rows and most columns of a worksheet in SpecSheet
MaxRows == 2
MaxCols == 2
\* longest cell text in SpecCell
MaxLen == 3

----------------------------------------------------------------------------
(* Values *)

None == [t |-> "none", v |-> <<>>]
Int1 == [t |-> "int", v |-> <<"1">>]
True == [t |-> "bool", v |-> <<"T">>]
Str(s) == [t |-> "str", v |-> s]

NoError == [ex |-> "", at |-> ""]

Min(S) == CHOOSE m \in S : \A n \in S : m <= n
Max(S) == CHOOSE m \in S : \A n \in S : n <= m

\* _csv_ext
_csv_ext == <<".", "c", "s", "v">>

\* str.isspace() characters that occur in the model
Whitespace == {" ", "\t", "\n", "\r"}

----------------------------------------------------------------------------
(* Paths and names *)

\* str(dir_source): the directory's own path
SrcPath == <<"d">>

\* _re_xls.match(s): '.+\.xls[xm]' anchored at the start only; '.' matches
\* any character but a newline
_re_xls(s) ==
    \E i \in 2..(Len(s) - 4) :
        /\ \A k \in 1..(i - 1) : s[k] # "\n"
        /\ s[i] = "."
        /\ s[i + 1] = "x"
        /\ s[i + 2] = "l"
        /\ s[i + 3] = "s"
        /\ s[i + 4] \in {"x", "m"}

\* re.sub('[$~]', '', s)
ReSub(s) == SelectSeq(s, LAMBDA c : c \notin {"$", "~"})

\* index of the last occurrence of c in s, 0 when there is none
LastIndex(s, c) ==
    LET at == {i \in 1..Len(s) : s[i] = c}
    IN  IF at = {} THEN 0 ELSE Max(at)

\* Path(p).parent and Path(p).name
ParentOf(p) ==
    LET i == LastIndex(p, "/") IN IF i = 0 THEN <<>> ELSE SubSeq(p, 1, i - 1)

NameOf(p) == SubSeq(p, LastIndex(p, "/") + 1, Len(p))

\* Path(p).stem: the name without its last suffix
Stem(p) ==
    LET name == NameOf(p)
        i == LastIndex(name, ".")
    IN  IF 1 < i /\ i < Len(name) THEN SubSeq(name, 1, i - 1) ELSE name

\* os.path.splitext(p)[-1], which load_workbook checks first
Ext(p) ==
    LET name == NameOf(p)
        i == LastIndex(name, ".")
    IN  IF 1 < i THEN SubSeq(name, i, Len(name)) ELSE <<>>

SupportedFormats ==
    { <<".", "x", "l", "s", "x">>, <<".", "x", "l", "s", "m">>,
      <<".", "x", "l", "t", "x">>, <<".", "x", "l", "t", "m">> }

----------------------------------------------------------------------------
(* The files dir_source may hold *)

Sheet(title, columns) == [title |-> title, columns |-> columns]

Book(sheets) == [zip |-> TRUE, sheets |-> sheets]
NoBook == [zip |-> FALSE, sheets |-> <<>>]

File(name, book) == [name |-> name, kind |-> "file", book |-> book]
Dir(name) == [name |-> name, kind |-> "dir", book |-> NoBook]

BookA ==
    Book(<< Sheet(<<"a">>,
                  << <<Str(<<"x">>), Int1>>,
                     <<None, None>>,
                     <<Str(<<" ", "y", "\n">>), None>> >>),
            Sheet(<<"b", "_", "c">>, << <<Int1>> >>) >>)

BookAm == Book(<< Sheet(<<"b", "_", "c">>, << <<Str(<<"z">>)>> >>) >>)

BookAB == Book(<< Sheet(<<"c">>, << <<Str(<<"\n", "w">>), True>> >>) >>)

Pool ==
    << File(<<"a", ".", "x", "l", "s", "x">>, BookA),
       File(<<"a", ".", "x", "l", "s", "m">>, BookAm),
       File(<<"a", "_", "b", ".", "x", "l", "s", "x">>, BookAB),
       File(<<"~", "$", "a", ".", "x", "l", "s", "x">>, NoBook),
       File(<<"a", ".", "x", "l", "s", "x", ".", "b", "a", "k">>, BookA),
       File(<<"n", ".", "t", "x", "t">>, NoBook),
       File(<<"b", "a", "d", ".", "x", "l", "s", "x">>, NoBook),
       Dir(<<"s", ".", "x", "l", "s", "x">>) >>

\* str(_p) of a child of dir_source
PathOf(i) == SrcPath \o <<"/">> \o Pool[i].name

\* files dir_destination may hold before the first call
OldRows == << <<Str(<<"o">>)>> >>
OldNames == { <<"o", ".", "t", "x", "t">>,
              <<"a", "_", "b", "_", "c", ".", "c", "s", "v">> }

OldFiles(names) == [n \in names |-> OldRows]

----------------------------------------------------------------------------
(* load_workbook *)

\* load_workbook(filename=p, data_only=True) with dir_source holding the
\* children `files`: the exception it raises ("" when none) and the
\* worksheets it yields
load_workbook(p, files) ==
    LET found == {i \in files : Pool[i].name = NameOf(p)}
        i == CHOOSE k \in found : TRUE
    IN  IF Ext(p) \notin SupportedFormats
          THEN [ex |-> "InvalidFileException", sheets |-> <<>>]
        ELSE IF ParentOf(p) # SrcPath \/ found = {}
          THEN [ex |-> "FileNotFoundError", sheets |-> <<>>]
        ELSE IF Pool[i].kind = "dir"
          THEN [ex |-> "IsADirectoryError", sheets |-> <<>>]
        ELSE IF ~Pool[i].book.zip
          THEN [ex |-> "BadZipFile", sheets |-> <<>>]
        ELSE [ex |-> "", sheets |-> Pool[i].book.sheets]

\* the filter of line 132
Matches(i) == Pool[i].kind = "file" /\ _re_xls(PathOf(i))

\* _name of line 134
NameToLoad(i) == ReSub(PathOf(i))

----------------------------------------------------------------------------
(* The cell matrix and the cleansing *)

\* v.replace('\n', '\\n')
RECURSIVE Replace(_)
Replace(s) ==
    IF s = <<>> THEN <<>>
    ELSE (IF Head(s) = "\n" THEN <<"\\", "n">> ELSE <<Head(s)>>)
         \o Replace(Tail(s))

\* s.strip()
Strip(s) ==
    LET keep == {i \in 1..Len(s) : s[i] \notin Whitespace}
    IN  IF keep = {} THEN <<>> ELSE SubSeq(s, Min(keep), Max(keep))

\* faulty variant of _cleanse: the newlines are escaped, nothing is stripped
CleanseNoStrip(v) == IF v.t = "str" THEN Str(Replace(v.v)) ELSE v

\* _cleanse of lines 144-145
_cleanse(v) == IF v.t = "str" THEN Str(Strip(Replace(v.v))) ELSE v

\* faulty variant of KeepColumn: all() in place of any()
KeepColumnAll(col) == \A r \in 1..Len(col) : col[r] # None

\* any(c.value is not None for c in col)
KeepColumn(col) == \E r \in 1..Len(col) : col[r] # None

\* zip(*cols)
Zip(cols) ==
    IF cols = <<>> THEN <<>>
    ELSE [r \in 1..Min({Len(cols[k]) : k \in 1..Len(cols)}) |->
            [k \in 1..Len(cols) |-> cols[k][r]]]

\* _cells of lines 151-153
Cells(ws) == Zip(SelectSeq(ws.columns, KeepColumn))

\* _contents of lines 157-158
Contents(cells) ==
    [r \in 1..Len(cells) |-> [k \in 1..Len(cells[r]) |-> _cleanse(cells[r][k])]]

\* the outcomes of `_ws.title is _filename`: identity of two str objects,
\* which equal text does not imply and which different text excludes
IsSame(title, filename) == IF title = filename THEN BOOLEAN ELSE {FALSE}

\* _concat of lines 149-150
Concat(title, filename, same) ==
    (IF same THEN title ELSE filename \o <<"_">> \o title) \o _csv_ext

----------------------------------------------------------------------------
(* The state before the first call *)

EmptyDir == [n \in {} |-> OldRows]

\* the file `name` of directory `files` opened with 'w+' and written
Put(files, name, rows) ==
    [n \in (DOMAIN files) \cup {name} |-> IF n = name THEN rows ELSE files[n]]

NotStarted == [done |-> FALSE, exists |-> FALSE, files |-> EmptyDir]

Init ==
    /\ srcKind \in {"absent", "file", "dir"}
    /\ srcFiles \in IF srcKind = "dir"
                      THEN {S \in SUBSET (1..Len(Pool)) : Cardinality(S) <= MaxFiles}
                      ELSE {{}}
    /\ dest0 \in {[exists |-> FALSE, files |-> EmptyDir]}
                 \cup {[exists |-> TRUE, files |-> OldFiles(N)] : N \in SUBSET OldNames}
    /\ overwrites_destination \in BOOLEAN
    /\ destExists = dest0.exists
    /\ destFiles = dest0.files
    /\ pc = "validate"
    /\ error = NoError
    /\ run = 1
    /\ todo = {}
    /\ _worksheets = <<>>
    /\ next_ws = 1
    /\ loads = <<>>
    /\ written = <<>>
    /\ after1 = NotStarted
    /\ input = <<>>
    /\ output = <<>>

----------------------------------------------------------------------------
(* normalize, step by step *)

\* faulty variant of Validate: only the existence of dir_source is tested
ValidateExistsOnly ==
    /\ pc = "validate"
    /\ IF srcKind = "absent"
         THEN /\ pc' = "raised"
              /\ error' = [ex |-> "_InputException", at |-> "validate"]
         ELSE /\ pc' = "prepare"
              /\ error' = error
    /\ UNCHANGED <<srcKind, srcFiles, dest0, overwrites_destination, destExists,
                   destFiles, run, todo, _worksheets, next_ws, loads, written,
                   after1, input, output>>

\* lines 110-116: validate input
Validate ==
    /\ pc = "validate"
    /\ IF ~(srcKind = "dir") \/ ~(srcKind # "absent")
         THEN /\ pc' = "raised"
              /\ error' = [ex |-> "_InputException", at |-> "validate"]
         ELSE /\ pc' = "prepare"
              /\ error' = error
    /\ UNCHANGED <<srcKind, srcFiles, dest0, overwrites_destination, destExists,
                   destFiles, run, todo, _worksheets, next_ws, loads, written,
                   after1, input, output>>

\* lines 118-131: create or validate output, then start the scan
PrepareDestination ==
    /\ pc = "prepare"
    /\ IF ~destExists
         THEN \* os.makedirs(_out); with the flag, os.remove of each file
              \* os.listdir(_out) lists and os.rmdir(_out)
              /\ destExists' = IF overwrites_destination THEN FALSE ELSE TRUE
              /\ destFiles' = EmptyDir
         ELSE /\ destExists' = destExists
              /\ destFiles' = destFiles
    /\ pc' = "load"
    /\ todo' = srcFiles
    /\ _worksheets' = <<>>
    /\ UNCHANGED <<srcKind, srcFiles, dest0, overwrites_destination, error, run,
                   next_ws, loads, written, after1, input, output>>

\* the worksheets of a loaded workbook, each paired with Path(_name).stem
Loaded(i, sheets) ==
    [k \in 1..Len(sheets) |-> [ws |-> sheets[k], filename |-> Stem(NameToLoad(i))]]

\* faulty variant of LoadStep: a workbook's first worksheet is written as
\* soon as the workbook is loaded
LoadAndWrite ==
    /\ pc = "load"
    /\ todo # {}
    /\ \E i \in todo :
        LET r == load_workbook(NameToLoad(i), srcFiles)
            new == Loaded(i, r.sheets)
        IN  /\ todo' = todo \ {i}
            /\ IF Matches(i) /\ r.ex # ""
                 THEN /\ pc' = "raised"
                      /\ error' = [ex |-> r.ex, at |-> "load"]
                      /\ UNCHANGED <<_worksheets, loads, destFiles, written>>
               ELSE IF Matches(i)
                 THEN /\ _worksheets' = _worksheets \o new
                      /\ loads' = Append(loads, [child |-> Pool[i].name,
                                                 target |-> NameOf(NameToLoad(i))])
                      /\ destFiles' =
                            IF destExists /\ new # <<>>
                              THEN Put(destFiles,
                                       Concat(new[1].ws.title, new[1].filename, FALSE),
                                       Contents(Cells(new[1].ws)))
                              ELSE destFiles
                      /\ written' =
                            IF destExists /\ new # <<>>
                              THEN Append(written,
                                          [title |-> new[1].ws.title,
                                           filename |-> new[1].filename,
                                           name |-> Concat(new[1].ws.title,
                                                           new[1].filename, FALSE)])
                              ELSE written
                      /\ UNCHANGED <<pc, error>>
               ELSE UNCHANGED <<pc, error, _worksheets, loads, destFiles, written>>
    /\ UNCHANGED <<srcKind, srcFiles, dest0, overwrites_destination, destExists,
                   run, next_ws, after1, input, output>>

\* lines 131-139: one turn of the loop over dir_source.iterdir(), whose
\* order is arbitrary
LoadStep ==
    /\ pc = "load"
    /\ todo # {}
    /\ \E i \in todo :
        LET r == load_workbook(NameToLoad(i), srcFiles)
        IN  /\ todo' = todo \ {i}
            /\ IF Matches(i) /\ r.ex # ""
                 THEN /\ pc' = "raised"
                      /\ error' = [ex |-> r.ex, at |-> "load"]
                      /\ UNCHANGED <<_worksheets, loads>>
               ELSE IF Matches(i)
                 THEN /\ _worksheets' = _worksheets \o Loaded(i, r.sheets)
                      /\ loads' = Append(loads, [child |-> Pool[i].name,
                                                 target |-> NameOf(NameToLoad(i))])
                      /\ UNCHANGED <<pc, error>>
               ELSE UNCHANGED <<pc, error, _worksheets, loads>>
    /\ UNCHANGED <<srcKind, srcFiles, dest0, overwrites_destination, destExists,
                   destFiles, run, next_ws, written, after1, input, output>>

\* lines 144-148: the scan is over, the loop over _worksheets.items() starts
LoadDone ==
    /\ pc = "load"
    /\ todo = {}
    /\ pc' = "write"
    /\ next_ws' = 1
    /\ UNCHANGED <<srcKind, srcFiles, dest0, overwrites_destination, destExists,
                   destFiles, error, run, todo, _worksheets, loads, written,
                   after1, input, output>>

\* lines 148-160: one turn of the loop that writes a worksheet
WriteStep ==
    /\ pc = "write"
    /\ next_ws <= Len(_worksheets)
    /\ LET _ws == _worksheets[next_ws].ws
           _filename == _worksheets[next_ws].filename
       IN  \E same \in IsSame(_ws.title, _filename) :
             LET _concat == Concat(_ws.title, _filename, same)
                 _cells == Cells(_ws)
             IN  IF ~destExists
                   THEN \* open() in a directory that does not exist
                        /\ pc' = "raised"
                        /\ error' = [ex |-> "FileNotFoundError", at |-> "write"]
                        /\ UNCHANGED <<destFiles, written, next_ws>>
                   ELSE /\ destFiles' = Put(destFiles, _concat, Contents(_cells))
                        /\ written' = Append(written, [title |-> _ws.title,
                                                       filename |-> _filename,
                                                       name |-> _concat])
                        /\ next_ws' = next_ws + 1
                        /\ UNCHANGED <<pc, error>>
    /\ UNCHANGED <<srcKind, srcFiles, dest0, overwrites_destination, destExists,
                   run, todo, _worksheets, loads, after1, input, output>>

\* lines 161-162: the loop is over, normalize returns
Finish ==
    /\ pc = "write"
    /\ next_ws > Len(_worksheets)
    /\ pc' = "done"
    /\ after1' = IF run = 1
                   THEN [done |-> TRUE, exists |-> destExists, files |-> destFiles]
                   ELSE after1
    /\ UNCHANGED <<srcKind, srcFiles, dest0, overwrites_destination, destExists,
                   destFiles, error, run, todo, _worksheets, next_ws, loads,
                   written, input, output>>

\* normalize is called again with the same arguments
Rerun ==
    /\ pc = "done"
    /\ run < MaxRuns
    /\ run' = run + 1
    /\ pc' = "validate"
    /\ todo' = {}
    /\ _worksheets' = <<>>
    /\ next_ws' = 1
    /\ loads' = <<>>
    /\ written' = <<>>
    /\ UNCHANGED <<srcKind, srcFiles, dest0, overwrites_destination, destExists,
                   destFiles, error, after1, input, output>>

Next ==
    \/ Validate
    \/ PrepareDestination
    \/ LoadStep
    \/ LoadDone
    \/ WriteStep
    \/ Finish
    \/ Rerun

Spec == Init /\ [][Next]_vars

----------------------------------------------------------------------------
(* The cell matrix of one worksheet, for every small worksheet *)

\* normalize is not running
Idle ==
    /\ srcKind = "absent"
    /\ srcFiles = {}
    /\ dest0 = [exists |-> FALSE, files |-> EmptyDir]
    /\ overwrites_destination = FALSE
    /\ destExists = FALSE
    /\ destFiles = EmptyDir
    /\ error = NoError
    /\ run = 1
    /\ todo = {}
    /\ _worksheets = <<>>
    /\ next_ws = 1
    /\ loads = <<>>
    /\ written = <<>>
    /\ after1 = NotStarted

SheetValues == {None, Int1, Str(<<" ", "a">>)}

\* ws.columns: a column per column of the sheet, each with a cell per row
Grids ==
    UNION { [1..nc -> [1..nr -> SheetValues]] : nc \in 0..MaxCols, nr \in 1..MaxRows }

InitSheet ==
    /\ Idle
    /\ pc = "sheet"
    /\ input \in {Sheet(<<"s">>, g) : g \in Grids}
    /\ output = <<>>

\* lines 151-158 on one worksheet
ConvertSheet ==
    /\ pc = "sheet"
    /\ output' = Contents(Cells(input))
    /\ pc' = "sheet_done"
    /\ UNCHANGED <<srcKind, srcFiles, dest0, overwrites_destination, destExists,
                   destFiles, error, run, todo, _worksheets, next_ws, loads,
                   written, after1, input>>

SpecSheet == InitSheet /\ [][ConvertSheet]_vars

----------------------------------------------------------------------------
(* The cleansing of one cell value, for every short text *)

Alphabet == {"a", " ", "\t", "\n"}

Texts == UNION { [1..n -> Alphabet] : n \in 0..MaxLen }

InitCell ==
    /\ Idle
    /\ pc = "cell"
    /\ input \in {None, Int1, True} \cup {Str(s) : s \in Texts}
    /\ output = <<>>

\* lines 144-145 and 157 on one cell value
CleanseCell ==
    /\ pc = "cell"
    /\ output' = _cleanse(input)
    /\ pc' = "cell_done"
    /\ UNCHANGED <<srcKind, srcFiles, dest0, overwrites_destination, destExists,
                   destFiles, error, run, todo, _worksheets, next_ws, loads,
                   written, after1, input>>

SpecCell == InitCell /\ [][CleanseCell]_vars

----------------------------------------------------------------------------
(* The claims *)

\* the names of the files this call has opened for writing
WrittenNames == {written[k].name : k \in 1..Len(written)}

C2_DestinationExistsAtFirstOpen ==
    (srcKind = "dir" /\ ~dest0.exists /\ run = 1 /\ pc = "write"
        /\ next_ws = 1 /\ Len(_worksheets) >= 1) => destExists

\* C3: with the overwrite flag set and dir_destination holding files, every
\* file it held is deleted before the first output is written, and after a
\* successful call it holds exactly the files this call wrote.
C3_OverwritePurgesFirst ==
    (overwrites_destination /\ dest0.exists /\ DOMAIN dest0.files # {} /\ run = 1) =>
        /\ (pc = "write" /\ next_ws = 1) => destFiles = EmptyDir
        /\ (pc = "done") => DOMAIN destFiles = WrittenNames

\* s ends with suffix
EndsWith(s, suffix) ==
    /\ Len(suffix) <= Len(s)
    /\ SubSeq(s, Len(s) - Len(suffix) + 1, Len(s)) = suffix

\* the children the scan is to load: regular files named *.xlsx or *.xlsm
\* whose name does not start with a lock-file prefix
ToLoad(i) ==
    /\ Pool[i].kind = "file"
    /\ \/ EndsWith(Pool[i].name, <<".", "x", "l", "s", "x">>)
       \/ EndsWith(Pool[i].name, <<".", "x", "l", "s", "m">>)
    /\ Pool[i].name[1] \notin {"$", "~"}

\* C4: a child of dir_source is loaded as a workbook if and only if it is a
\* regular file named *.xlsx or *.xlsm whose name does not start with '$' or
\* '~': no workbook is loaded for any other child, and once the scan is over
\* one has been loaded for each such child.
C4_LoadedIffMatching ==
    /\ \A k \in 1..Len(loads) :
          \E i \in srcFiles : Pool[i].name = loads[k].child /\ ToLoad(i)
    /\ (pc \in {"write", "done"}) =>
          \A i \in srcFiles :
              ToLoad(i) => \E k \in 1..Len(loads) : loads[k].child = Pool[i].name

\* the (workbook, worksheet) pairs of the children the scan is to load
SheetsToWrite ==
    UNION { {<<i, k>> : k \in 1..Len(Pool[i].book.sheets)} :
            i \in {j \in srcFiles : ToLoad(j)} }

\* C5: after a successful call into an initially empty dir_destination, the
\* number of its files is the number of worksheets of the matched workbooks.
C5_OneFilePerWorksheet ==
    (run = 1 /\ pc = "done" /\ dest0.exists /\ dest0.files = EmptyDir) =>
        Cardinality(DOMAIN destFiles) = Cardinality(SheetsToWrite)

\* C6: every worksheet's output file is named <title>.csv when its title is
\* equal, as text, to the base name of its source file, and
\* <base name>_<title>.csv otherwise.
C6_OutputFileName ==
    \A k \in 1..Len(written) :
        written[k].name =
            IF written[k].title = written[k].filename
              THEN written[k].title \o <<".", "c", "s", "v">>
              ELSE written[k].filename \o <<"_">> \o written[k].title
                       \o <<".", "c", "s", "v">>

\* the columns of a sheet that hold a value in some row
KeptColumns(cols) ==
    {j \in 1..Len(cols) : \E r \in 1..Len(cols[j]) : cols[j][r].t # "none"}

\* the k-th of them, in column order
KeptColumn(cols, k) ==
    CHOOSE j \in KeptColumns(cols) :
        Cardinality({i \in KeptColumns(cols) : i <= j}) = k

\* C7: output row r is the cleansed cells of row r of the columns that hold
\* a value in some row, in column order: one field per such column in every
\* row, none for a column without a value, and a cell without a value of a
\* kept column stays at its place.
C7_RowsOfKeptColumns ==
    (pc = "sheet_done") =>
        LET cols == input.columns
            n == Cardinality(KeptColumns(cols))
        IN  IF n = 0
              THEN output = <<>>
              ELSE /\ Len(output) = Len(cols[1])
                   /\ \A r \in 1..Len(output) :
                        /\ Len(output[r]) = n
                        /\ \A k \in 1..n :
                             output[r][k] = _cleanse(cols[KeptColumn(cols, k)][r])

C7_Witness ==
    /\ pc = "sheet_done"
    /\ Len(input.columns) = 2
    /\ input.columns[1] = <<None, None>>
    /\ input.columns[2] = <<None, Str(<<" ", "a">>)>>
    /\ output = << <<None>>, <<Str(<<"a">>)>> >>

\* s without its leading and trailing characters of the set `chars`
StripChars(s, chars) ==
    LET keep == {i \in 1..Len(s) : s[i] \notin chars}
    IN  IF keep = {} THEN <<>> ELSE SubSeq(s, Min(keep), Max(keep))

\* s with every newline replaced by a backslash and an n
Escaped(s) ==
    LET F[i \in 0..Len(s)] ==
            IF i = 0 THEN <<>>
            ELSE F[i - 1] \o (IF s[i] = "\n" THEN <<"\\", "n">> ELSE <<s[i]>>)
    IN  F[Len(s)]

Parseable ==
    \A i \in srcFiles : Matches(i) => load_workbook(NameToLoad(i), srcFiles).ex = ""

\* C9: with a valid dir_source and the overwrite flag set, two calls in a
\* row both succeed, whatever dir_destination was, and the second leaves
\* dir_destination with the files and contents the first left.
C9_Idempotent ==
    (overwrites_destination /\ srcKind = "dir" /\ Parseable) =>
        /\ pc # "raised"
        /\ (run = 2 /\ pc = "done") =>
              /\ after1.done
              /\ destExists = after1.exists
              /\ destFiles = after1.files

\* C10: no output file is opened before every child of dir_source has been
\* scanned and every matched workbook loaded; a call that a workbook ends
\* while loading has written no file and left the files of dir_destination
\* as they were.
C10_NoWriteBeforeAllLoaded ==
    /\ (written # <<>>) => (pc # "load" /\ todo = {})
    /\ (error.at = "load") => (written = <<>> /\ destFiles = dest0.files)

C10_Witness ==
    /\ pc = "raised"
    /\ error.at = "load"
    /\ Len(_worksheets) >= 1
    /\ destExists

====
